---- MODULE Spec2Model ----
(***************************************************************************)
(* slumber: a REST client that maps attribute access and call syntax onto  *)
(* URL paths and HTTP verbs (src/slumber/__init__.py).                     *)
(*                                                                         *)
(* Text (URLs, attribute names, header values, bodies) is a sequence of    *)
(* one-character strings, so that startswith/endswith/split/strip and the  *)
(* joining of URLs are computed and not assumed.                           *)
(***************************************************************************)
EXTENDS Integers, Sequences, FiniteSets, TLC

VARIABLES
    objs,          \* the live objects: objs[1] is the API root, the others Resources
    _status_code,  \* API._status_code of the root
    _headers,      \* API._headers of the root
    last,          \* what the last operation was given, sent, received and gave back
    pc             \* where each thread of the embedding application is in its call

vars == <<objs, _status_code, _headers, last, pc>>

-----------------------------------------------------------------------------
(* Bounds of the model *)

MaxObjs == 3       \* objects alive at once (the root included)

-----------------------------------------------------------------------------
(* Python values *)

None == <<"<None>">>               \* None: differs from every text
NoneText == <<"N", "o", "n", "e">> \* what '%s' % None gives

Str(x) == IF x = None THEN NoneText ELSE x

\* bool(x) of None, a text or a mapping
Truthy(x) == x # None /\ x # <<>>

startswith(s, c) == Len(s) > 0 /\ s[1] = c

endswith(s, c) == Len(s) > 0 /\ s[Len(s)] = c

-----------------------------------------------------------------------------
(* slumber.utils, as the specification describes it *)

\* the base joined with one more segment by a single "/"
url_join(base, seg) ==
    IF endswith(base, "/")
        THEN base \o Str(seg)
        ELSE base \o <<"/">> \o Str(seg)

\* a new mapping with every entry of the given one
copy_kwargs(store) == store

-----------------------------------------------------------------------------
(* ResourceAttributesMixin._methods *)

GET_ == <<"g", "e", "t">>
HEAD_ == <<"h", "e", "a", "d">>
OPTIONS_ == <<"o", "p", "t", "i", "o", "n", "s">>
POST_ == <<"p", "o", "s", "t">>
PUT_ == <<"p", "u", "t">>
PATCH_ == <<"p", "a", "t", "c", "h">>
DELETE_ == <<"d", "e", "l", "e", "t", "e">>

_methods ==
    (GET_ :> [method |-> "GET", has_data |-> FALSE]) @@
    (HEAD_ :> [method |-> "HEAD", has_data |-> FALSE]) @@
    (OPTIONS_ :> [method |-> "OPTIONS", has_data |-> FALSE]) @@
    (POST_ :> [method |-> "POST", has_data |-> TRUE]) @@
    (PUT_ :> [method |-> "PUT", has_data |-> TRUE]) @@
    (PATCH_ :> [method |-> "PATCH", has_data |-> TRUE]) @@
    (DELETE_ :> [method |-> "DELETE", has_data |-> TRUE])

_get_methods == _methods

\* self._call = None
NoCall == [method |-> "None", has_data |-> FALSE]

-----------------------------------------------------------------------------
(* Responses of the transport: status_code, headers, content *)

\* headers.get(name, None)
Get(hdrs, name) == IF name \in DOMAIN hdrs THEN hdrs[name] ELSE None

NoHeaders == <<>>

\* no response: the attribute has not been assigned yet
NoResp == [status_code |-> 0, headers |-> NoHeaders,
           content |-> [bytes |-> FALSE, text |-> <<>>]]

-----------------------------------------------------------------------------
(* slumber.serialize and slumber.exceptions, as the specification describes *)
(* them: one codec per registered content type, encode and decode          *)

JsonType == <<"a", "/", "j">>      \* stands for application/json

Registered == {JsonType}

\* Serializer.get_content_type: the content type of the default codec
get_content_type == JsonType

\* Serializer.dumps: the value encoded by the default codec
dumps(data) == <<"'">> \o data \o <<"'">>

\* whether the codec can parse the text: an opening and its closing brace
Parsable(text) == Len(text) >= 2 /\ text[1] = "{" /\ text[Len(text)] = "}"

\* Serializer.loads of a parsable text: the value, no longer a text
loads(text) == [t |-> "decoded", of |-> SubSeq(text, 2, Len(text) - 1)]

\* bytes.decode fails on a byte that is no character of the encoding
Decodable(text) == \A i \in 1..Len(text) : text[i] # "xFF"

\* what an operation gives back
RetNone == [t |-> "None"]
RetContent(content) == [t |-> "content", content |-> content]
RetHandle(i) == [t |-> "handle", h |-> i]
RetText(s) == [t |-> "text", s |-> s]

-----------------------------------------------------------------------------
(* Objects *)

NoKey == 0     \* the key "api" is not in the store
RootId == 1    \* objs[1] is the API root

\* Resource.__init__: the keyword arguments become the store, nothing is armed
Resource(kwargs) ==
    [cls |-> "Resource", store |-> kwargs, call |-> NoCall, last_resp |-> NoResp]

\* API.__init__ with a base_url: the store refers back to the root itself
API(base_url, append_slash) ==
    [cls |-> "API",
     store |-> [base_url |-> base_url, format |-> <<"j", "s", "o", "n">>,
                append_slash |-> append_slash, session |-> "session",
                serializer |-> "serializer", api |-> RootId],
     call |-> NoCall, last_resp |-> NoResp]

\* url with the "/" appended without looking at the end of base_url
url_appending_blindly(store) ==
    IF store.append_slash THEN store.base_url \o <<"/">> ELSE store.base_url

\* Resource.url
url(store) ==
    IF store.append_slash /\ ~endswith(store.base_url, "/")
        THEN store.base_url \o <<"/">>
        ELSE store.base_url

\* child_kwargs with the name put right after base_url, not joined to it
child_kwargs_concatenating(store, item) ==
    [copy_kwargs(store) EXCEPT !.base_url = store.base_url \o item]

\* the store of the handle an attribute access descends to
child_kwargs(store, item) ==
    [copy_kwargs(store) EXCEPT !.base_url = url_join(store.base_url, item)]

-----------------------------------------------------------------------------
(* Resource: the request and the response *)

\* str.split(";")[0]: the text before the first ";"
RECURSIVE split_first(_)
split_first(s) ==
    IF s = <<>> \/ Head(s) = ";" THEN <<>> ELSE <<Head(s)>> \o split_first(Tail(s))

\* str.strip(): the text without its leading and trailing blanks
RECURSIVE strip(_)
strip(s) ==
    IF startswith(s, " ") THEN strip(Tail(s))
    ELSE IF endswith(s, " ") THEN strip(SubSeq(s, 1, Len(s) - 1))
    ELSE s

\* dict.pop(key, None): the value taken out
pop(kwargs, key) == IF key \in DOMAIN kwargs THEN kwargs[key] ELSE None

\* dict.pop(key, None): what stays in the mapping
popped(kwargs, key) == [k \in DOMAIN kwargs \ {key} |-> kwargs[k]]

\* the headers _request sends
request_headers(files) ==
    IF ~Truthy(files)
        THEN ("accept" :> get_content_type) @@ ("content-type" :> get_content_type)
        ELSE ("accept" :> get_content_type)

\* request_data with the body encoded whether or not files are attached
request_data_encoding_beside_files(data, files) ==
    IF data # None THEN dumps(data) ELSE data

\* the body _request sends
request_data(data, files) ==
    IF ~Truthy(files) /\ data # None THEN dumps(data) ELSE data

\* exception_class without the special case of 404
exception_class_without_404(status_code) ==
    IF 400 <= status_code /\ status_code <= 499
        THEN "HttpClientError"
    ELSE IF 500 <= status_code /\ status_code <= 599
        THEN "HttpServerError"
    ELSE ""

\* the exception _request raises for a status code, "" for none
exception_class(status_code) ==
    IF 400 <= status_code /\ status_code <= 499
        THEN IF status_code = 404 THEN "HttpNotFoundError" ELSE "HttpClientError"
    ELSE IF 500 <= status_code /\ status_code <= 599
        THEN "HttpServerError"
    ELSE ""

\* Resource._request: the request handed to session.request, and what the
\* response the session gives back makes of it
_request(self, method, data, files, params, resp) ==
    [request |-> [method |-> method, url |-> url(self.store),
                  data |-> request_data(data, files), params |-> params,
                  files |-> files, headers |-> request_headers(files)],
     raised |-> exception_class(resp.status_code),
     stored |-> exception_class(resp.status_code) = ""]

\* Resource._try_to_serialize_response
_try_to_serialize_response(self, resp) ==
    IF resp.status_code \in {204, 205}
        THEN [raised |-> "", ret |-> RetNone, loads_called |-> FALSE]
    ELSE IF Truthy(Get(resp.headers, "content-type")) /\ Truthy(resp.content.text)
        THEN LET content_type == strip(split_first(Get(resp.headers, "content-type")))
             IN  IF content_type \notin Registered
                     THEN [raised |-> "", ret |-> RetContent(resp.content),
                           loads_called |-> FALSE]
                 ELSE IF resp.content.bytes
                     THEN IF Decodable(resp.content.text) /\ Parsable(resp.content.text)
                              THEN [raised |-> "", ret |-> loads(resp.content.text),
                                    loads_called |-> TRUE]
                              ELSE [raised |-> "", ret |-> RetContent(resp.content),
                                    loads_called |-> Decodable(resp.content.text)]
                 ELSE IF Parsable(resp.content.text)
                     THEN [raised |-> "", ret |-> loads(resp.content.text),
                           loads_called |-> TRUE]
                     ELSE [raised |-> "ValueError", ret |-> RetNone,
                           loads_called |-> TRUE]
        ELSE [raised |-> "", ret |-> RetContent(resp.content), loads_called |-> FALSE]

\* _process_response with the root told of the response only once it is decoded
_process_response_recording_last(self, resp) ==
    IF self.store.api = NoKey
        THEN [raised |-> "KeyError", ret |-> RetNone, loads_called |-> FALSE,
              recorded |-> FALSE]
    ELSE IF 200 <= resp.status_code /\ resp.status_code <= 299
        THEN LET r == _try_to_serialize_response(self, resp)
             IN  [recorded |-> r.raised = ""] @@ r
        ELSE [raised |-> "", ret |-> RetNone, loads_called |-> FALSE,
              recorded |-> TRUE]

\* _process_response with the root told of the responses of 200..299 only
_process_response_recording_success_only(self, resp) ==
    IF self.store.api = NoKey
        THEN [raised |-> "KeyError", ret |-> RetNone, loads_called |-> FALSE,
              recorded |-> FALSE]
    ELSE IF 200 <= resp.status_code /\ resp.status_code <= 299
        THEN [recorded |-> TRUE] @@ _try_to_serialize_response(self, resp)
        ELSE [raised |-> "", ret |-> RetNone, loads_called |-> FALSE,
              recorded |-> FALSE]

\* Resource._process_response: the store must hold the key "api"; the root
\* records the response before anything is decoded
_process_response(self, resp) ==
    IF self.store.api = NoKey
        THEN [raised |-> "KeyError", ret |-> RetNone, loads_called |-> FALSE,
              recorded |-> FALSE]
    ELSE IF 200 <= resp.status_code /\ resp.status_code <= 299
        THEN [recorded |-> TRUE] @@ _try_to_serialize_response(self, resp)
        ELSE [raised |-> "", ret |-> RetNone, loads_called |-> FALSE,
              recorded |-> TRUE]

\* requests_sent with the location of a 201 response fetched as well
requests_sent_following_location(request, resp) ==
    IF resp.status_code = 201 /\ "location" \in DOMAIN resp.headers
        THEN <<request, [request EXCEPT !.method = "GET",
                                        !.url = resp.headers["location"]]>>
        ELSE <<request>>

\* the requests one _perform_action hands to the session: the one of _request
requests_sent(request, resp) == <<request>>

\* Resource._perform_action: one _request, then _process_response unless the
\* request raised
_perform_action(self, kwargs, resp) ==
    LET method == self.call.method
        sent == IF self.call.has_data
                    THEN _request(self, method, pop(kwargs, "data"),
                                  pop(kwargs, "files"),
                                  popped(popped(kwargs, "data"), "files"), resp)
                    ELSE _request(self, method, None, None, kwargs, resp)
    IN  IF sent.raised # ""
            THEN [requests |-> requests_sent(sent.request, resp), raised |-> sent.raised,
                  ret |-> RetNone, loads_called |-> FALSE, recorded |-> FALSE,
                  stored |-> FALSE]
            ELSE [requests |-> requests_sent(sent.request, resp), stored |-> sent.stored]
                     @@ _process_response(self, resp)

-----------------------------------------------------------------------------
(* Resource.__call__ without an armed verb: the handle rebound *)

\* the names a class defines: every other name goes to __getattr__
Defined(cls) ==
    IF cls = "API"
        THEN {"__init__", "__getattr__", "_methods", "_get_methods", "_store",
              "_call", "_get_resource", "_set_response", "status_code", "headers"}
        ELSE {"__init__", "__getattr__", "_methods", "_get_methods", "_store",
              "_call", "__call__", "_request", "_handle_redirect",
              "_try_to_serialize_response", "_process_response",
              "_perform_action", "url"}

\* the builtin function id, which the test "id is not None" reads
id == <<"<", "b", "u", "i", "l", "t", "i", "n", ">">>

\* the keyword arguments __call__ builds for the new handle
rebound_kwargs(self, res_id, res_format, url_override) ==
    LET k0 == copy_kwargs(self.store)
        k1 == IF id # None
                  THEN [k0 EXCEPT !.base_url = url_join(self.store.base_url, res_id)]
                  ELSE k0
        k2 == IF res_format # None THEN [k1 EXCEPT !.format = res_format] ELSE k1
        k3 == IF url_override # None THEN [k2 EXCEPT !.base_url = url_override] ELSE k2
    IN  [k3 EXCEPT !.session = self.store.session]

-----------------------------------------------------------------------------
(* What an operation leaves to be observed *)

NoArgs == [res_id |-> None, res_format |-> None, url_override |-> None]

NoKwargs == <<>>

\* the embedding application runs no threads of its own: one call at a time
NoThreads == <<>>

Idle ==
    [op |-> "init", h |-> RootId, item |-> <<>>, args |-> NoArgs,
     kwargs |-> NoKwargs, requests |-> <<>>, resp |-> NoResp, raised |-> "",
     ret |-> RetNone, loads_called |-> FALSE]

-----------------------------------------------------------------------------
(* The inputs the operations are tried on *)

RootUrls == {<<"h">>, <<"h", "/">>}

TestUrls == {<<"t">>, <<"t", "/">>}

PathNames == {<<"a">>}

PrivateNames == {<<"_", "a">>}

VerbNames == DOMAIN _methods

SomeVerbs == {POST_}

Location == <<"l">>

Ids == {None, <<"4", "2">>}

Formats == {None, <<"y", "a", "m", "l">>}

Overrides == {None, Location}

Args == [res_id : Ids, res_format : Formats, url_override : Overrides]

Payload == <<"d">>

Kwargs ==
    {NoKwargs,
     [q |-> <<"1">>],
     [data |-> Payload],
     [data |-> None],
     [data |-> <<>>],
     [data |-> Payload, q |-> <<"1">>],
     [files |-> <<"f">>],
     [data |-> Payload, files |-> <<"f">>],
     [data |-> Payload, files |-> <<>>],
     [data |-> Payload, files |-> <<"f">>, q |-> <<"1">>]}

StatusCodes == {199, 200, 201, 204, 205, 299, 300, 399, 400, 403, 404, 499, 500, 599, 600}

Good == <<"{", "x", "}">>

Bad == <<"{", "x">>

Contents ==
    {[bytes |-> b, text |-> t] : b \in BOOLEAN, t \in {<<>>, Good, Bad}}
        \cup {[bytes |-> TRUE, text |-> <<"xFF">>]}

HeaderSets ==
    {NoHeaders,
     ("content-type" :> JsonType),
     ("content-type" :> <<" ">> \o JsonType \o <<" ", ";", " ", "c">>),
     ("content-type" :> <<"a", "/", "x">>),
     ("content-type" :> <<>>)}

JsonResp == [status_code |-> 200, headers |-> ("content-type" :> JsonType),
             content |-> [bytes |-> FALSE, text |-> Good]]

Created == [status_code |-> 201, headers |-> ("location" :> Location),
            content |-> [bytes |-> FALSE, text |-> <<>>]]

\* every status with a body the codec can parse, status 200 with every
\* header set and content, and a 201 that names a location
Responses ==
    {[JsonResp EXCEPT !.status_code = c] : c \in StatusCodes}
        \cup {[status_code |-> 200, headers |-> hs, content |-> ct] :
                hs \in HeaderSets, ct \in Contents}
        \cup {Created}

\* the keyword arguments and the response of one armed invocation: either may
\* vary, the other then being the plain one
Invocations ==
    {<<kw, JsonResp>> : kw \in Kwargs} \cup {<<NoKwargs, r>> : r \in Responses}

-----------------------------------------------------------------------------
(* The operations *)

Init ==
    /\ \E base_url \in RootUrls : objs = <<API(base_url, TRUE)>>
    /\ _status_code = 0
    /\ _headers = NoHeaders
    /\ last = Idle
    /\ pc = NoThreads

\* slumber.Resource(base_url=..., format="json", append_slash=...) with a
\* session and a serializer put in its store, as the tests build one
__init__(base_url, append_slash) ==
    /\ Len(objs) < MaxObjs
    /\ UNCHANGED pc
    /\ objs' = Append(objs,
                      Resource([base_url |-> base_url, format |-> <<"j", "s", "o", "n">>,
                                append_slash |-> append_slash, session |-> "mock",
                                serializer |-> "serializer", api |-> NoKey]))
    /\ last' = [Idle EXCEPT !.op = "new", !.h = Len(objs) + 1,
                            !.ret = RetHandle(Len(objs) + 1)]
    /\ UNCHANGED <<_status_code, _headers>>

\* ResourceAttributesMixin.__getattr__, of the root or of a Resource
__getattr__(self, item) ==
    /\ self \in DOMAIN objs
    /\ UNCHANGED <<_status_code, _headers, pc>>
    /\ IF startswith(item, "_")
           THEN /\ UNCHANGED objs
                /\ last' = [Idle EXCEPT !.op = "getattr", !.h = self, !.item = item,
                                        !.raised = "AttributeError"]
       ELSE IF item \notin DOMAIN _get_methods
           THEN /\ Len(objs) < MaxObjs
                /\ objs' = Append(objs, Resource(child_kwargs(objs[self].store, item)))
                /\ last' = [Idle EXCEPT !.op = "getattr", !.h = self, !.item = item,
                                        !.ret = RetHandle(Len(objs) + 1)]
       ELSE /\ objs' = [objs EXCEPT ![self].call = _get_methods[item]]
            /\ last' = [Idle EXCEPT !.op = "getattr", !.h = self, !.item = item,
                                    !.ret = RetHandle(self)]

\* Resource.url()
url_(self) ==
    /\ self \in DOMAIN objs
    /\ objs[self].cls = "Resource"
    /\ last' = [Idle EXCEPT !.op = "url", !.h = self,
                            !.ret = RetText(url(objs[self].store))]
    /\ UNCHANGED <<objs, _status_code, _headers, pc>>

\* after_request with the armed verb used up by the request
after_request_disarming(self, stored, resp) ==
    IF stored THEN [self EXCEPT !.last_resp = resp, !.call = NoCall]
              ELSE [self EXCEPT !.call = NoCall]

\* the handle after _request: self._ = resp unless the request raised
after_request(self, stored, resp) ==
    IF stored THEN [self EXCEPT !.last_resp = resp] ELSE self

\* API._set_response, its first statement
set_status_code(resp) == _status_code' = resp.status_code

\* set_headers with the headers of the root left as they are
set_headers_keeping(resp) == _headers' = _headers

\* API._set_response, its second statement
set_headers(resp) == _headers' = resp.headers

\* API._set_response
_set_response(resp) ==
    /\ set_status_code(resp)
    /\ set_headers(resp)

\* Resource.__call__ with a verb armed: _perform_action
armed_call(self, args, kwargs, resp) ==
    LET done == _perform_action(objs[self], kwargs, resp)
    IN  /\ IF done.recorded
               THEN _set_response(resp)
               ELSE UNCHANGED <<_status_code, _headers>>
        /\ objs' = [objs EXCEPT ![self] = after_request(objs[self], done.stored, resp)]
        /\ last' = [op |-> "invoke", h |-> self, item |-> <<>>, args |-> args,
                    kwargs |-> kwargs, requests |-> done.requests, resp |-> resp,
                    raised |-> done.raised, ret |-> done.ret,
                    loads_called |-> done.loads_called]

\* Resource.__call__ with nothing armed: the handle itself, or a new one made
\* by self._get_resource, a name that Resource does not define
rebinding_call(self, args) ==
    /\ UNCHANGED <<_status_code, _headers>>
    /\ IF args = NoArgs
           THEN /\ UNCHANGED objs
                /\ last' = [Idle EXCEPT !.op = "call", !.h = self,
                                        !.ret = RetHandle(self)]
       ELSE IF "_get_resource" \in Defined(objs[self].cls)
           THEN /\ Len(objs) < MaxObjs
                /\ objs' = Append(objs,
                                  Resource(rebound_kwargs(objs[self], args.res_id,
                                                          args.res_format,
                                                          args.url_override)))
                /\ last' = [Idle EXCEPT !.op = "call", !.h = self, !.args = args,
                                        !.ret = RetHandle(Len(objs) + 1)]
       ELSE /\ UNCHANGED objs
            /\ last' = [Idle EXCEPT !.op = "call", !.h = self, !.args = args,
                                    !.raised = "AttributeError"]

\* calling an object: Resource.__call__; the API class defines no __call__
__call__(self, args, kwargs, resp) ==
    /\ self \in DOMAIN objs
    /\ UNCHANGED pc
    /\ IF "__call__" \notin Defined(objs[self].cls)
           THEN /\ last' = [Idle EXCEPT !.op = "call", !.h = self, !.args = args,
                                        !.raised = "TypeError"]
                /\ UNCHANGED <<objs, _status_code, _headers>>
       ELSE IF objs[self].call # NoCall
           THEN armed_call(self, args, kwargs, resp)
           ELSE rebinding_call(self, args)

\* the root, and the handles made from it and beside it: every operation that
\* sends no request
Next ==
    \/ \E base_url \in TestUrls, append_slash \in BOOLEAN :
           __init__(base_url, append_slash)
    \/ \E self \in DOMAIN objs, item \in PathNames \cup PrivateNames \cup SomeVerbs :
           __getattr__(self, item)
    \/ \E self \in DOMAIN objs : url_(self)
    \/ \E self \in DOMAIN objs, args \in Args :
           objs[self].call = NoCall /\ __call__(self, args, NoKwargs, JsonResp)

Spec == Init /\ [][Next]_vars

-----------------------------------------------------------------------------
(* One handle and its requests *)

\* the handle the requests go through: objs[2]
Handle == RootId + 1

\* the root and one handle: root.a, root.a.a (the handle between dropped), or a
\* Resource built beside the root as the tests build it
InitRequest ==
    /\ \E h \in {Resource(child_kwargs(API(<<"h">>, TRUE).store, <<"a">>)),
                 Resource(child_kwargs(child_kwargs(API(<<"h">>, TRUE).store, <<"a">>),
                                       <<"a">>)),
                 Resource([base_url |-> <<"t">>, format |-> <<"j", "s", "o", "n">>,
                           append_slash |-> FALSE, session |-> "mock",
                           serializer |-> "serializer", api |-> NoKey])} :
           objs = <<API(<<"h">>, TRUE), h>>
    /\ _status_code = 0
    /\ _headers = NoHeaders
    /\ last = Idle
    /\ pc = NoThreads

NextRequest ==
    \/ \E item \in VerbNames : __getattr__(Handle, item)
    \/ \E inv \in Invocations :
           objs[Handle].call # NoCall /\ __call__(Handle, NoArgs, inv[1], inv[2])

SpecRequest == InitRequest /\ [][NextRequest]_vars

-----------------------------------------------------------------------------
(* The claims about requests, under SpecRequest *)

HttpErrors == {"HttpNotFoundError", "HttpClientError", "HttpServerError"}

\* C1: whatever status the transport returns to an armed invocation, 404 raises
\* HttpNotFoundError, every other status of 400..499 raises HttpClientError,
\* every status of 500..599 raises HttpServerError, no status of 200..299 raises
\* any of the three, and when one of them is raised the body was not decoded.
C1_StatusClassification ==
    last.op = "invoke" =>
        LET c == last.resp.status_code
        IN  /\ c = 404 => last.raised = "HttpNotFoundError"
            /\ (c \in 400..499 /\ c # 404) => last.raised = "HttpClientError"
            /\ c \in 500..599 => last.raised = "HttpServerError"
            /\ c \in 200..299 => last.raised \notin HttpErrors
            /\ last.raised \in HttpErrors =>
                   ~last.loads_called /\ last.ret = RetNone

\* a 404 whose body the codec could have parsed was raised as not found
C1_Witness ==
    /\ last.op = "invoke"
    /\ last.resp.status_code = 404
    /\ Parsable(last.resp.content.text)
    /\ last.raised = "HttpNotFoundError"
    /\ ~last.loads_called

\* C2: after an armed invocation of a handle below the root whose response has
\* a status of 200..299, the root's status code and headers are that response's,
\* whatever the decoding gave (nothing for 204/205, the raw body, a value, or
\* an error of the codec).
C2_RootRecordsSuccess ==
    (/\ last.op = "invoke"
     /\ objs[last.h].store.api = RootId
     /\ last.resp.status_code \in 200..299)
        => /\ _status_code = last.resp.status_code
           /\ _headers = last.resp.headers

\* the handle root.a.a got a 200 whose body the codec refused, and the root
\* holds its status and headers
C2_Witness ==
    /\ last.op = "invoke"
    /\ objs[last.h].store.api = RootId
    /\ objs[last.h].store.base_url = <<"h", "/", "a", "/", "a">>
    /\ last.resp.status_code = 200
    /\ last.raised = "ValueError"
    /\ _status_code = 200
    /\ _headers = last.resp.headers

\* the verbs and what each arms, as the claim lists them
C4_Verbs ==
    (GET_ :> [method |-> "GET", has_data |-> FALSE]) @@
    (HEAD_ :> [method |-> "HEAD", has_data |-> FALSE]) @@
    (OPTIONS_ :> [method |-> "OPTIONS", has_data |-> FALSE]) @@
    (POST_ :> [method |-> "POST", has_data |-> TRUE]) @@
    (PUT_ :> [method |-> "PUT", has_data |-> TRUE]) @@
    (PATCH_ :> [method |-> "PATCH", has_data |-> TRUE]) @@
    (DELETE_ :> [method |-> "DELETE", has_data |-> TRUE])

\* C4: accessing one of the seven verb names on a handle makes no new handle,
\* sets that handle's armed verb to the verb's method and has_data, changes
\* nothing else and gives back the same handle; an invocation leaves the armed
\* verb and the store as they were and sends the armed method to url(); the
\* armed verb of a handle changes in no other step.
C4_VerbArmsTheHandle ==
    [][/\ (last'.op = "getattr" /\ last'.item \in DOMAIN C4_Verbs) =>
              /\ objs' = [objs EXCEPT ![last'.h].call = C4_Verbs[last'.item]]
              /\ last'.ret = RetHandle(last'.h)
       /\ last'.op = "invoke" =>
              /\ objs[last'.h].call # NoCall
              /\ objs'[last'.h].call = objs[last'.h].call
              /\ objs'[last'.h].store = objs[last'.h].store
              /\ last'.requests[1].method = objs[last'.h].call.method
              /\ last'.requests[1].url = url(objs[last'.h].store)
       /\ \A i \in DOMAIN objs :
              objs'[i].call # objs[i].call =>
                  /\ last'.op = "getattr"
                  /\ last'.h = i
                  /\ last'.item \in DOMAIN C4_Verbs
      ]_vars

\* a handle armed with DELETE that holds the response of an earlier invocation
\* has been invoked again, and is still armed with DELETE
C4_Witness ==
    /\ last.op = "invoke"
    /\ objs[last.h].last_resp # NoResp
    /\ last.raised = "HttpNotFoundError"
    /\ last.requests[1].method = "DELETE"
    /\ objs[last.h].call = [method |-> "DELETE", has_data |-> TRUE]

\* C5: every invocation of an armed handle hands exactly one request to the
\* session, whatever the response: a 201 with a location is not followed.
C5_OneRequest ==
    last.op = "invoke" => Len(last.requests) = 1

\* a POST answered 201 with a location header sent one request
C5_Witness ==
    /\ last.op = "invoke"
    /\ last.resp = Created
    /\ last.requests[1].method = "POST"
    /\ Len(last.requests) = 1

\* the keyword arguments without the two reserved ones
C6_Rest(kwargs) == [k \in DOMAIN kwargs \ {"data", "files"} |-> kwargs[k]]

\* the reserved keyword argument, None when it was not given
C6_Given(kwargs, key) == IF key \in DOMAIN kwargs THEN kwargs[key] ELSE None

\* C6: the request of an armed invocation is a function of the armed verb and
\* the keyword arguments: the verb's method to url(); for GET, HEAD and OPTIONS
\* every keyword argument is a query parameter and there is no body and no
\* files; for POST, PUT, PATCH and DELETE the body is `data`, the files are
\* `files` and the other arguments are the query parameters; accept is always
\* the default content type; with no files attached content-type is it too and
\* a body that is not None is encoded; with files attached the body goes as
\* given and there is no content-type.
C6_RequestBuilt ==
    last.op = "invoke" =>
        LET r == last.requests[1]
            kw == last.kwargs
            verb == objs[last.h].call
            store == objs[last.h].store
            data == IF verb.method \in {"GET", "HEAD", "OPTIONS"}
                        THEN None ELSE C6_Given(kw, "data")
            files == IF verb.method \in {"GET", "HEAD", "OPTIONS"}
                         THEN None ELSE C6_Given(kw, "files")
            attached == files # None /\ files # <<>>
        IN  /\ r.method = verb.method
            /\ r.url = IF store.append_slash /\ ~endswith(store.base_url, "/")
                           THEN store.base_url \o <<"/">> ELSE store.base_url
            /\ r.params = IF verb.method \in {"GET", "HEAD", "OPTIONS"}
                              THEN kw ELSE C6_Rest(kw)
            /\ r.files = files
            /\ r.headers["accept"] = JsonType
            /\ ~attached =>
                   /\ "content-type" \in DOMAIN r.headers
                   /\ r.headers["content-type"] = JsonType
                   /\ r.data = IF data = None THEN None
                                              ELSE <<"'">> \o data \o <<"'">>
            /\ attached =>
                   /\ "content-type" \notin DOMAIN r.headers
                   /\ r.data = data

\* a PUT with a body, files and a query parameter: the body went unencoded,
\* with no content-type, and the query parameter alone was left
C6_Witness ==
    /\ last.op = "invoke"
    /\ last.kwargs = [data |-> Payload, files |-> <<"f">>, q |-> <<"1">>]
    /\ last.requests[1].method = "PUT"
    /\ last.requests[1].data = Payload
    /\ last.requests[1].params = [q |-> <<"1">>]
    /\ DOMAIN last.requests[1].headers = {"accept"}

-----------------------------------------------------------------------------
(* The claims about addressing, under Spec *)

\* the base and one more segment with exactly one "/" between them
C3_Joined(base, name) ==
    (IF endswith(base, "/") THEN SubSeq(base, 1, Len(base) - 1) ELSE base)
        \o <<"/">> \o name

\* C3: accessing a name that neither starts with "_" nor is a verb name, on
\* the root or on a handle, gives a new handle whose base_url is the parent's
\* joined with the name by exactly one "/" (also when the parent's ends in
\* "/"), whose format, append_slash, session, serializer and api are the
\* parent's, and leaves the parent and every other handle as they were.
C3_PathSegmentGivesNewHandle ==
    [][(/\ last'.op = "getattr"
        /\ ~startswith(last'.item, "_")
        /\ last'.item \notin DOMAIN C4_Verbs) =>
           LET parent == objs[last'.h].store
               n == Len(objs) + 1
           IN  /\ last'.raised = ""
               /\ last'.ret = RetHandle(n)
               /\ DOMAIN objs' = DOMAIN objs \cup {n}
               /\ \A i \in DOMAIN objs : objs'[i] = objs[i]
               /\ objs'[n].cls = "Resource"
               /\ objs'[n].call = NoCall
               /\ objs'[n].store.base_url = C3_Joined(parent.base_url, last'.item)
               /\ objs'[n].store.format = parent.format
               /\ objs'[n].store.append_slash = parent.append_slash
               /\ objs'[n].store.session = parent.session
               /\ objs'[n].store.serializer = parent.serializer
               /\ objs'[n].store.api = parent.api
      ]_vars

\* the name a was accessed on a parent whose base_url ends in "/" and whose
\* url() would append nothing: the new handle is one "/" and the name further
C3_Witness ==
    /\ last.op = "getattr"
    /\ last.item = <<"a">>
    /\ last.raised = ""
    /\ endswith(objs[last.h].store.base_url, "/")
    /\ objs[last.h].store.append_slash
    /\ objs[last.ret.h].store.base_url = objs[last.h].store.base_url \o <<"a">>
    /\ objs[last.ret.h].store.append_slash

\* C7: url() gives base_url with one "/" appended exactly when append_slash is
\* true and base_url does not already end in "/": with append_slash true the
\* result ends in "/", with append_slash false it is base_url; url() changes
\* no handle.
C7_Url ==
    [][last'.op = "url" =>
           LET store == objs[last'.h].store
               u == last'.ret.s
           IN  /\ objs' = objs
               /\ u = IF store.append_slash /\ ~endswith(store.base_url, "/")
                          THEN store.base_url \o <<"/">>
                          ELSE store.base_url
               /\ store.append_slash => endswith(u, "/")
               /\ ~store.append_slash => u = store.base_url
      ]_vars

\* url() of a handle with append_slash true whose base_url already ends in "/"
\* gave base_url
C7_Witness ==
    /\ last.op = "url"
    /\ objs[last.h].store.append_slash
    /\ endswith(objs[last.h].store.base_url, "/")
    /\ last.ret = RetText(objs[last.h].store.base_url)

\* C8: invoking an unarmed Resource with no identifier, format or url override
\* gives the same handle; with any of them it gives a new handle that shares
\* the session: an identifier is one more path segment of base_url, a format
\* override replaces only format, a url override replaces base_url; the
\* original handle is unchanged.
C8_Rebinding ==
    (last.op = "call" /\ objs[last.h].cls = "Resource") =>
        IF last.args = NoArgs
            THEN last.raised = "" /\ last.ret = RetHandle(last.h)
            ELSE /\ last.raised = ""
                 /\ last.ret.t = "handle"
                 /\ last.ret.h # last.h
                 /\ LET old == objs[last.h].store
                        new == objs[last.ret.h].store
                    IN  /\ new.session = old.session
                        /\ new.base_url =
                               IF last.args.url_override # None
                                   THEN last.args.url_override
                               ELSE IF last.args.res_id # None
                                   THEN C3_Joined(old.base_url, last.args.res_id)
                               ELSE old.base_url
                        /\ new.format =
                               IF last.args.res_format # None
                                   THEN last.args.res_format ELSE old.format

-----------------------------------------------------------------------------
(* The claims about decoding, under SpecRequest *)

\* the response is a success that carries a body to be decoded or passed on
Decoding ==
    /\ last.op = "invoke"
    /\ last.resp.status_code \in (200..299) \ {204, 205}

\* C9: for a 2xx response other than 204/205 whose content type has a codec
\* and whose body is not empty and cannot be parsed, the invocation gives the
\* raw body and raises nothing, the body being bytes or a string. Stated of
\* the handles below the root.
C9_UnparsableBodyGivenBack ==
    (/\ Decoding
     /\ objs[last.h].store.api = RootId
     /\ "content-type" \in DOMAIN last.resp.headers
     /\ strip(split_first(last.resp.headers["content-type"])) \in Registered
     /\ last.resp.content.text # <<>>
     /\ ~(Decodable(last.resp.content.text) /\ Parsable(last.resp.content.text)))
        => /\ last.raised = ""
           /\ last.ret = RetContent(last.resp.content)

\* the response has no content type, or no body, or a content type without codec
C10_NothingToDecode ==
    \/ "content-type" \notin DOMAIN last.resp.headers
    \/ last.resp.content.text = <<>>
    \/ strip(split_first(last.resp.headers["content-type"])) \notin Registered

\* C10: for a 2xx response other than 204/205 with no content-type header, or
\* an empty body, or a content type (parameters stripped) without a codec, the
\* invocation gives the raw body and raises nothing.
C10_RawBodyGivenBack ==
    (Decoding /\ C10_NothingToDecode)
        => /\ last.raised = ""
           /\ last.ret = RetContent(last.resp.content)

\* the same of the handles below the root only, which the code satisfies
RawBodyGivenBackBelowRoot ==
    (Decoding /\ C10_NothingToDecode /\ objs[last.h].store.api = RootId)
        => /\ last.raised = ""
           /\ last.ret = RetContent(last.resp.content)

-----------------------------------------------------------------------------
(* The claims about what the root records, under SpecRequest *)

\* C11 as it was stated: after every request made through a handle below the
\* root, whatever the status of the response (one raised as a client or server
\* error included), the root's status code and headers are that response's.
C11_RootRecordsEveryResponse ==
    (last.op = "invoke" /\ objs[last.h].store.api = RootId)
        => /\ _status_code = last.resp.status_code
           /\ _headers = last.resp.headers

\* C11: after a request made through a handle below the root, the root's
\* status code and headers are those of the response when its status is not
\* one of 400..599, and are what they were before the request when it is
\* (the response is then raised as a client or server error and not recorded).
C11_RootRecordsWhatIsNotRaised ==
    [][(last'.op = "invoke" /\ objs[last'.h].store.api = RootId) =>
           IF last'.resp.status_code \in 400..599
               THEN /\ last'.raised \in HttpErrors
                    /\ _status_code' = _status_code
                    /\ _headers' = _headers
               ELSE /\ _status_code' = last'.resp.status_code
                    /\ _headers' = last'.resp.headers
      ]_vars

\* a response of status 500 has been raised and the root still holds the 201
\* and the location of an earlier request
C11_Witness ==
    /\ last.op = "invoke"
    /\ objs[last.h].store.api = RootId
    /\ last.resp.status_code = 500
    /\ last.raised = "HttpServerError"
    /\ _status_code = 201
    /\ _headers = Created.headers

\* C12: a Resource built from base_url, format and append_slash, with a
\* session and a serializer put in its store and no "api" entry, can be armed
\* and invoked: on a 200 response with a JSON body the codec can parse, get,
\* post, put and patch give the decoded value and raise nothing.
C12_ResourceWithoutRoot ==
    (/\ last.op = "invoke"
     /\ objs[last.h].store.api = NoKey
     /\ last.requests[1].method \in {"GET", "POST", "PUT", "PATCH"}
     /\ last.resp.status_code = 200
     /\ "content-type" \in DOMAIN last.resp.headers
     /\ last.resp.headers["content-type"] = JsonType
     /\ Decodable(last.resp.content.text)
     /\ Parsable(last.resp.content.text))
        => /\ last.raised = ""
           /\ last.ret = loads(last.resp.content.text)

-----------------------------------------------------------------------------
(* Resource._handle_redirect *)

\* what value.get(**kwargs) raises when the value is no handle: a decoded
\* mapping wants a key as its first argument, and None, a text or bytes have
\* no attribute get
get_raises(ret) == IF ret.t = "decoded" THEN "TypeError" ELSE "AttributeError"

\* Resource._handle_redirect(resp, **kwargs): self(url_override=location), then
\* .get(**kwargs) of what that call gave.  With a verb armed the call is
\* _perform_action with no keyword arguments; with none armed it is the
\* rebinding, which asks for self._get_resource.
_handle_redirect(self, resp, kwargs, answer) ==
    /\ self \in DOMAIN objs
    /\ objs[self].cls = "Resource"
    /\ UNCHANGED pc
    /\ IF "location" \notin DOMAIN resp.headers
           THEN /\ last' = [Idle EXCEPT !.op = "redirect", !.h = self,
                                        !.kwargs = kwargs, !.raised = "KeyError"]
                /\ UNCHANGED <<objs, _status_code, _headers>>
       ELSE LET args == [NoArgs EXCEPT !.url_override = resp.headers["location"]]
            IN  IF objs[self].call # NoCall
                    THEN LET done == _perform_action(objs[self], NoKwargs, answer)
                         IN  /\ IF done.recorded
                                    THEN _set_response(answer)
                                    ELSE UNCHANGED <<_status_code, _headers>>
                             /\ objs' = [objs EXCEPT ![self] =
                                            after_request(objs[self], done.stored, answer)]
                             /\ last' = [op |-> "redirect", h |-> self, item |-> <<>>,
                                         args |-> args, kwargs |-> kwargs,
                                         requests |-> done.requests, resp |-> answer,
                                         raised |-> IF done.raised # ""
                                                        THEN done.raised
                                                        ELSE get_raises(done.ret),
                                         ret |-> RetNone,
                                         loads_called |-> done.loads_called]
                ELSE IF "_get_resource" \in Defined(objs[self].cls)
                    THEN LET resource_obj ==
                                 [Resource(rebound_kwargs(objs[self], args.res_id,
                                                          args.res_format,
                                                          args.url_override))
                                     EXCEPT !.call = _get_methods[GET_]]
                             done == _perform_action(resource_obj, kwargs, answer)
                         IN  /\ Len(objs) < MaxObjs
                             /\ IF done.recorded
                                    THEN _set_response(answer)
                                    ELSE UNCHANGED <<_status_code, _headers>>
                             /\ objs' = Append(objs, after_request(resource_obj,
                                                                   done.stored, answer))
                             /\ last' = [op |-> "redirect", h |-> self, item |-> <<>>,
                                         args |-> args, kwargs |-> kwargs,
                                         requests |-> done.requests, resp |-> answer,
                                         raised |-> done.raised, ret |-> done.ret,
                                         loads_called |-> done.loads_called]
                ELSE /\ last' = [Idle EXCEPT !.op = "redirect", !.h = self,
                                             !.args = args, !.kwargs = kwargs,
                                             !.raised = "AttributeError"]
                     /\ UNCHANGED <<objs, _status_code, _headers>>

\* the responses handed to the helper: one that names a location, one that
\* does not
Redirects == {Created, JsonResp}

\* the named parameters handed to the helper
Params == {NoKwargs, [q |-> <<"1">>]}

\* what the transport answers to a request the helper sends
Answers ==
    {JsonResp, Created,
     [JsonResp EXCEPT !.status_code = 404],
     [JsonResp EXCEPT !.content = [bytes |-> FALSE, text |-> Bad]],
     [JsonResp EXCEPT !.headers = NoHeaders]}

\* the requests that come before the helper: a creation answered by 201 and a
\* location, and a plain one
Creations == {<<[data |-> Payload], Created>>, <<NoKwargs, JsonResp>>}

NextRedirect ==
    \/ \E item \in VerbNames : __getattr__(Handle, item)
    \/ \E inv \in Creations :
           objs[Handle].call # NoCall /\ __call__(Handle, NoArgs, inv[1], inv[2])
    \/ \E resp \in Redirects, kwargs \in Params, answer \in Answers :
           _handle_redirect(Handle, resp, kwargs, answer)

SpecRedirect == InitRequest /\ [][NextRedirect]_vars

\* C13: given a response that carries a location, the redirect helper called on
\* a handle below the root (the one that has just sent the POST, PUT or PATCH
\* included) makes a new handle bound to the location and sends exactly one
\* request, a GET to that location with the named parameters as its query;
\* when the answer is a 200 with a JSON body the codec can parse, the helper
\* gives the decoded value and raises nothing.
C13_RedirectFetchesLocation ==
    (/\ last.op = "redirect"
     /\ objs[last.h].store.api = RootId
     /\ last.args.url_override # None
     /\ last.resp = JsonResp)
        => /\ last.raised = ""
           /\ \E i \in DOMAIN objs : objs[i].store.base_url = last.args.url_override
           /\ Len(last.requests) = 1
           /\ last.requests[1].method = "GET"
           /\ last.requests[1].url =
                  url([objs[last.h].store EXCEPT !.base_url = last.args.url_override])
           /\ last.requests[1].params = last.kwargs
           /\ last.ret = loads(JsonResp.content.text)

-----------------------------------------------------------------------------
(* Two threads of the embedding application, each invoking an armed handle *)
(* below the one root.  Nothing in the code takes a lock, so a thread may  *)
(* be suspended between any two statements: between the request and       *)
(* api._set_response, and inside _set_response between its two statements. *)

Threads == {"t1", "t2"}

\* the verbs the two handles are armed with
ArmedVerbs == {GET_, POST_}

\* what the transport answers to the two threads: two that are recorded with
\* a result, one recorded without (no status of 200..299), one raised
ThreadResponses ==
    {JsonResp, Created,
     [status_code |-> 300, headers |-> ("content-type" :> <<"a", "/", "x">>),
      content |-> [bytes |-> FALSE, text |-> <<>>]],
     [JsonResp EXCEPT !.status_code = 404]}

\* root.a and root.a.a, each armed, and each thread about to call one of them
InitConcurrent ==
    /\ \E v1 \in ArmedVerbs, v2 \in ArmedVerbs :
           LET a == child_kwargs(API(<<"h">>, TRUE).store, <<"a">>)
           IN  objs = <<API(<<"h">>, TRUE),
                        [Resource(a) EXCEPT !.call = _get_methods[v1]],
                        [Resource(child_kwargs(a, <<"a">>))
                            EXCEPT !.call = _get_methods[v2]]>>
    /\ _status_code = 0
    /\ _headers = NoHeaders
    /\ last = Idle
    /\ pc \in [Threads -> {[at |-> "call", h |-> h, requests |-> <<>>,
                             resp |-> NoResp, raised |-> "", ret |-> RetNone,
                             loads_called |-> FALSE] :
                               h \in {Handle, Handle + 1}}]

\* what the thread's call is seen to have done once it has returned or raised
returned(state) ==
    [op |-> "invoke", h |-> state.h, item |-> <<>>, args |-> NoArgs,
     kwargs |-> NoKwargs, requests |-> state.requests, resp |-> state.resp,
     raised |-> state.raised, ret |-> state.ret,
     loads_called |-> state.loads_called]

\* the thread's _perform_action up to the call of api._set_response: the
\* request is sent and answered, self._ is assigned, and a response that is
\* raised ends the call
thread_request(t, resp) ==
    /\ pc[t].at = "call"
    /\ LET self == pc[t].h
           done == _perform_action(objs[self], NoKwargs, resp)
           state == [at |-> IF done.recorded THEN "_status_code" ELSE "done",
                     h |-> self, requests |-> done.requests, resp |-> resp,
                     raised |-> done.raised,
                     ret |-> done.ret, loads_called |-> done.loads_called]
       IN  /\ objs' = [objs EXCEPT ![self] = after_request(objs[self], done.stored, resp)]
           /\ pc' = [pc EXCEPT ![t] = state]
           /\ last' = IF done.recorded THEN last ELSE returned(state)
    /\ UNCHANGED <<_status_code, _headers>>

\* the thread's self._status_code = resp.status_code
thread_set_status_code(t) ==
    /\ pc[t].at = "_status_code"
    /\ set_status_code(pc[t].resp)
    /\ pc' = [pc EXCEPT ![t].at = "_headers"]
    /\ UNCHANGED <<objs, _headers, last>>

\* the thread's self._headers = resp.headers, after which the response is
\* decoded and the call returns
thread_set_headers(t) ==
    /\ pc[t].at = "_headers"
    /\ set_headers(pc[t].resp)
    /\ pc' = [pc EXCEPT ![t].at = "done"]
    /\ last' = returned([pc[t] EXCEPT !.at = "done"])
    /\ UNCHANGED <<objs, _status_code>>

NextConcurrent ==
    \/ \E t \in Threads, resp \in ThreadResponses : thread_request(t, resp)
    \/ \E t \in Threads : thread_set_status_code(t)
    \/ \E t \in Threads : thread_set_headers(t)

SpecConcurrent == InitConcurrent /\ [][NextConcurrent]_vars

\* both calls have returned and neither has raised
BothSucceeded == \A t \in Threads : pc[t].at = "done" /\ pc[t].raised = ""

\* C14 as it was stated: when two requests made concurrently through handles
\* of one root have both succeeded, the root's status code and headers are
\* the pair of one of the two responses, both from the same response.
C14_PairOfOneResponse ==
    BothSucceeded =>
        \E t \in Threads : /\ _status_code = pc[t].resp.status_code
                           /\ _headers = pc[t].resp.headers

\* C14: when two requests made concurrently through handles of one root have
\* both succeeded, the root's status code is that of one of the two responses
\* and the root's headers are those of one of the two responses, which need
\* not be the same response.
C14_EachOfOneResponse ==
    BothSucceeded =>
        /\ \E t \in Threads : _status_code = pc[t].resp.status_code
        /\ \E t \in Threads : _headers = pc[t].resp.headers

\* both calls have succeeded and the root holds the status code of one
\* response beside the headers of the other, a pair no response carried
C14_Witness ==
    /\ BothSucceeded
    /\ \E t \in Threads, u \in Threads :
           /\ _status_code = pc[t].resp.status_code
           /\ _headers = pc[u].resp.headers
           /\ _status_code # pc[u].resp.status_code
           /\ _headers # pc[t].resp.headers

====
